---- MODULE Spec2Model ----
(***************************************************************************)
(* A model of task_1 of the repository: the seeder (seed.py) and the       *)
(* schema bootstrap (db_create_tables.py) over a transactional store.      *)
(*                                                                         *)
(* Text is a sequence of one-character strings, so that urlparse, int(),   *)
(* lstrip and lower are computed character by character.  Python's None    *)
(* is the record None; a present value v is Some(v).                       *)
(***************************************************************************)
EXTENDS Integers, Sequences, FiniteSets, TLC

VARIABLES
    pc,          \* position of the running script or routine
    env,         \* os.environ: variable name -> None or Some(text)
    parts,       \* the components DATABASE_URL's text was assembled from
    cfg,         \* what _parse_db_env returned (None before it returns)
    exc,         \* the exception raised or in flight (type "none" when none)
    maxWait,     \* get_connection's max_wait_seconds
    now,         \* time.time(), in half seconds since get_connection was entered
    deadline,    \* get_connection's deadline, in half seconds
    attempt,     \* get_connection's attempt counter
    last_err,    \* get_connection's last_err: None or Some(attempt that failed)
    conn,        \* the handle: "none", "open" or "closed"
    autocommit,  \* the handle's autocommit flag
    link,        \* TRUE while the session to the server is usable
    txn,         \* the session's transaction status: "idle", "intrans", "inerror"
    db,          \* the committed store
    tx,          \* the store as the session sees it (db plus the open transaction)
    seq,         \* the serial sequences' next values (not transactional)
    uniqueSeen,  \* fake.unique's cache of emails already handed out
    emailLog,    \* the email lists generated by the seed_users calls, oldest first
    SEED_USERS,  \* module constant read from the environment at import
    SEED_TASKS,  \* module constant read from the environment at import
    before,      \* the committed store when the script run began
    pre,         \* the session's view when the last seeding routine was entered
    call,        \* the last seeding routine call: name, count, outcome
    opLog,       \* what the run did on the handle, oldest first
    ddlIndex,    \* create_tables' position in its statements
    ret          \* the bootstrap main()'s return code (-1 while running)

vars == <<pc, env, parts, cfg, exc, maxWait, now, deadline, attempt, last_err, conn,
          autocommit, link, txn, db, tx, seq, uniqueSeen, emailLog, SEED_USERS,
          SEED_TASKS, before, pre, call, opLog, ddlIndex, ret>>

(***************************************************************************)
(* Bounds of the model.                                                    *)
(***************************************************************************)
MaxPortLen == 2        \* longest DB_PORT text drawn
MaxWaitSeconds == 3    \* largest max_wait_seconds drawn for a direct call
NumEmails == 2         \* size of the email generator's pool
MaxTasks == 2          \* largest task count drawn by the routine driver
MaxSeedTasks == 1      \* largest SEED_TASKS drawn for main()
MaxCalls == 2          \* calls per behaviour of the routine driver

(***************************************************************************)
(* Python values.                                                          *)
(***************************************************************************)
None == [some |-> FALSE, v |-> <<>>]
Some(x) == [some |-> TRUE, v |-> x]
NoExc == [type |-> "none", at |-> "none", info |-> None]
Raise(t, where, i) == [type |-> t, at |-> where, info |-> i]

\* bool(x) of an optional text: None and "" are falsy.
Truthy(o) == o.some /\ o.v # <<>>

Digits == {"0", "4", "5"}
DigitVal(c) == CASE c = "0" -> 0 [] c = "4" -> 4 [] c = "5" -> 5 [] OTHER -> 0

\* str.isdigit(): non-empty and every character a digit.
IsDigit(s) == s # <<>> /\ \A i \in 1..Len(s) : s[i] \in Digits

RECURSIVE DecVal(_)
DecVal(s) == IF s = <<>> THEN 0
             ELSE 10 * DecVal(SubSeq(s, 1, Len(s) - 1)) + DigitVal(s[Len(s)])

\* int(text): an optional sign then digits; anything else is a ValueError.
PyIntOk(s) == IF s # <<>> /\ s[1] = "-" THEN IsDigit(Tail(s)) ELSE IsDigit(s)
PyInt(s) == IF s[1] = "-" THEN 0 - DecVal(Tail(s)) ELSE DecVal(s)

LowerChar(c) == CASE c = "H" -> "h" [] c = "L" -> "l" [] c = "P" -> "p" [] OTHER -> c
Lower(s) == [i \in 1..Len(s) |-> LowerChar(s[i])]

\* str.find(c): the first index of c (1-based), 0 when absent.
Find(s, c) == IF \E i \in 1..Len(s) : s[i] = c
              THEN CHOOSE i \in 1..Len(s) : s[i] = c /\ \A j \in 1..(i - 1) : s[j] # c
              ELSE 0
RFind(s, c) == IF \E i \in 1..Len(s) : s[i] = c
               THEN CHOOSE i \in 1..Len(s) : s[i] = c /\ \A j \in (i + 1)..Len(s) : s[j] # c
               ELSE 0

RECURSIVE LStrip(_, _)
LStrip(s, c) == IF s # <<>> /\ s[1] = c THEN LStrip(Tail(s), c) ELSE s

(***************************************************************************)
(* urllib.parse.urlparse, as far as _parse_db_env reads its result.        *)
(***************************************************************************)
SchemeChars == {"a", "c", "e", "g", "l", "m", "o", "p", "q", "r", "s", "t", "y",
                "P", "2", "+"}
Alpha == SchemeChars \ {"2", "+"}

\* urlsplit: the scheme is the text before the first ":" when it starts with a
\* letter and holds scheme characters only; it is lower-cased.
HasScheme(url) ==
    LET i == Find(url, ":") IN
    /\ i > 1
    /\ url[1] \in Alpha
    /\ \A j \in 1..(i - 1) : url[j] \in SchemeChars
UrlScheme(url) ==
    IF HasScheme(url) THEN Lower(SubSeq(url, 1, Find(url, ":") - 1)) ELSE <<>>
AfterScheme(url) ==
    IF HasScheme(url) THEN SubSeq(url, Find(url, ":") + 1, Len(url)) ELSE url

\* _splitnetloc: after "//", the netloc runs to the next "/".
HasNetloc(rest) == Len(rest) >= 2 /\ rest[1] = "/" /\ rest[2] = "/"
NetlocEnd(rest) ==
    LET r == SubSeq(rest, 3, Len(rest)) IN
    IF Find(r, "/") = 0 THEN Len(rest) ELSE Find(r, "/") + 1
UrlNetloc(url) ==
    LET rest == AfterScheme(url) IN
    IF HasNetloc(rest) THEN SubSeq(rest, 3, NetlocEnd(rest)) ELSE <<>>
UrlPath(url) ==
    LET rest == AfterScheme(url) IN
    IF HasNetloc(rest) THEN SubSeq(rest, NetlocEnd(rest) + 1, Len(rest)) ELSE rest

\* _userinfo: netloc.rpartition("@"), then userinfo.partition(":").
UserInfo(netloc) ==
    LET i == RFind(netloc, "@") IN
    IF i = 0 THEN None ELSE Some(SubSeq(netloc, 1, i - 1))
HostInfo(netloc) == SubSeq(netloc, RFind(netloc, "@") + 1, Len(netloc))
UrlUsername(url) ==
    LET ui == UserInfo(UrlNetloc(url)) IN
    IF ~ui.some THEN None
    ELSE IF Find(ui.v, ":") = 0 THEN Some(ui.v)
    ELSE Some(SubSeq(ui.v, 1, Find(ui.v, ":") - 1))
UrlPassword(url) ==
    LET ui == UserInfo(UrlNetloc(url)) IN
    IF ~ui.some \/ Find(ui.v, ":") = 0 THEN None
    ELSE Some(SubSeq(ui.v, Find(ui.v, ":") + 1, Len(ui.v)))

\* _hostinfo: hostinfo.partition(":"); hostname is lower-cased, "" gives None.
UrlHostname(url) ==
    LET hi == HostInfo(UrlNetloc(url))
        h  == IF Find(hi, ":") = 0 THEN hi ELSE SubSeq(hi, 1, Find(hi, ":") - 1)
    IN IF h = <<>> THEN None ELSE Some(Lower(h))
UrlPortText(url) ==
    LET hi == HostInfo(UrlNetloc(url)) IN
    IF Find(hi, ":") = 0 THEN <<>> ELSE SubSeq(hi, Find(hi, ":") + 1, Len(hi))
\* .port raises ValueError unless the text is digits within 0..65535.
UrlPortOk(url) ==
    LET p == UrlPortText(url) IN
    p = <<>> \/ (IsDigit(p) /\ DecVal(p) <= 65535)
UrlPort(url) ==
    LET p == UrlPortText(url) IN
    IF p = <<>> THEN [some |-> FALSE, v |-> 0] ELSE [some |-> TRUE, v |-> DecVal(p)]

(***************************************************************************)
(* seed.py: _parse_db_env                                                  *)
(***************************************************************************)
DefaultPort == 5432
AcceptedSchemes == { <<"p","o","s","t","g","r","e","s">>,
                     <<"p","o","s","t","g","r","e","s","q","l">>,
                     <<"p","o","s","t","g","r","e","s","q","l","+",
                       "p","s","y","c","o","p","g","2">> }
required == <<"DB_NAME", "DB_USER", "DB_PASSWORD", "DB_HOST">>

\* [k for k in required if not os.getenv(k)], in the order of `required`.
RECURSIVE MissingFrom(_, _)
MissingFrom(e, i) ==
    IF i > Len(required) THEN <<>>
    ELSE (IF Truthy(e[required[i]]) THEN <<>> ELSE <<required[i]>>)
         \o MissingFrom(e, i + 1)
\* Variant: only the first missing name is reported.
missingFirstOnly(e) ==
    IF MissingFrom(e, 1) = <<>> THEN <<>> ELSE <<Head(MissingFrom(e, 1))>>
missing(e) == MissingFrom(e, 1)

\* `parsed.port or 5432`
PortOrDefault(p) == IF p.some /\ p.v # 0 THEN p.v ELSE DefaultPort

\* os.getenv("DB_PORT", "5432") then int(...)
PortEnvOk(e) == ~e["DB_PORT"].some \/ PyIntOk(e["DB_PORT"].v)
PortEnv(e) == IF e["DB_PORT"].some THEN PyInt(e["DB_PORT"].v) ELSE DefaultPort

ParseUrl(url) ==
    IF UrlScheme(url) \notin AcceptedSchemes
    THEN [ok |-> FALSE, rec |-> None,
          exc |-> Raise("ValueError", "_parse_db_env", Some(<<"scheme">>))]
    ELSE IF ~UrlPortOk(url)
    THEN [ok |-> FALSE, rec |-> None,
          exc |-> Raise("ValueError", "_parse_db_env", Some(<<"port">>))]
    ELSE [ok |-> TRUE,
          rec |-> Some([dbname   |-> Some(LStrip(UrlPath(url), "/")),
                        user     |-> UrlUsername(url),
                        password |-> UrlPassword(url),
                        host     |-> UrlHostname(url),
                        port     |-> PortOrDefault(UrlPort(url))]),
          exc |-> NoExc]

ParseDiscrete(e) ==
    IF missing(e) # <<>>
    THEN [ok |-> FALSE, rec |-> None,
          exc |-> Raise("EnvironmentError", "_parse_db_env", Some(missing(e)))]
    ELSE IF ~PortEnvOk(e)
    THEN [ok |-> FALSE, rec |-> None,
          exc |-> Raise("ValueError", "_parse_db_env", Some(<<"port">>))]
    ELSE [ok |-> TRUE,
          rec |-> Some([dbname   |-> e["DB_NAME"],
                        user     |-> e["DB_USER"],
                        password |-> e["DB_PASSWORD"],
                        host     |-> e["DB_HOST"],
                        port     |-> PortEnv(e)]),
          exc |-> NoExc]

_parse_db_env(e) ==
    IF Truthy(e["DATABASE_URL"]) THEN ParseUrl(e["DATABASE_URL"].v)
    ELSE ParseDiscrete(e)

(***************************************************************************)
(* The store.  db_create_tables.py fixes the schema: serial ids, UNIQUE    *)
(* users.email and status.name, tasks.status_id and tasks.user_id foreign  *)
(* keys.  The free-text columns (fullname, title, description) carry no    *)
(* constraint that the seeder can violate and are left out of the rows.    *)
(***************************************************************************)
Emails == 1..NumEmails
EmptyStore == [tables |-> {}, status |-> {}, users |-> {}, tasks |-> {}]
Ids(rows) == {r.id : r \in rows}
Max(S) == CHOOSE x \in S : \A y \in S : y <= x
NextId(rows) == IF rows = {} THEN 1 ELSE Max(Ids(rows)) + 1

\* Variant: the insert without its conflict clause, on a name column that is
\* not unique.
SQL_INSERT_STATUSES_NoConflict(s, name) ==
    [s EXCEPT !.tx.status = @ \cup {[id |-> s.seq.status, name |-> name]},
              !.seq.status = @ + 1]

\* INSERT INTO status (name) VALUES (%s) ON CONFLICT (name) DO NOTHING
\* on s = [tx, seq]; the default nextval is drawn before the conflict is seen.
SQL_INSERT_STATUSES(s, name) ==
    IF \E r \in s.tx.status : r.name = name
    THEN [s EXCEPT !.seq.status = @ + 1]
    ELSE [s EXCEPT !.tx.status = @ \cup {[id |-> s.seq.status, name |-> name]},
                   !.seq.status = @ + 1]

\* INSERT INTO users (fullname, email) VALUES (%s, %s) ON CONFLICT (email) DO NOTHING
SQL_INSERT_USER(s, email) ==
    IF \E r \in s.tx.users : r.email = email
    THEN [s EXCEPT !.seq.users = @ + 1]
    ELSE [s EXCEPT !.tx.users = @ \cup {[id |-> s.seq.users, email |-> email]},
                   !.seq.users = @ + 1]

\* INSERT INTO tasks (title, description, status_id, user_id) VALUES (...)
\* The caller has checked the foreign keys (TaskRefsOk).
SQL_INSERT_TASK(s, t) ==
    [s EXCEPT !.tx.tasks = @ \cup {[id |-> s.seq.tasks, status_id |-> t[1],
                                    user_id |-> t[2]]},
              !.seq.tasks = @ + 1]
TaskRefsOk(view, t) == t[1] \in Ids(view.status) /\ t[2] \in Ids(view.users)

SQL_SELECT_USER_IDS(view) == Ids(view.users)
SQL_SELECT_STATUS_IDS(view) == Ids(view.status)

\* execute_batch(cur, sql, argslist): the statement once per argument, in order.
RECURSIVE BatchStatuses(_, _)
BatchStatuses(s, names) ==
    IF names = <<>> THEN s
    ELSE BatchStatuses(SQL_INSERT_STATUSES(s, Head(names)), Tail(names))
RECURSIVE BatchUsers(_, _)
BatchUsers(s, emails) ==
    IF emails = <<>> THEN s
    ELSE BatchUsers(SQL_INSERT_USER(s, Head(emails)), Tail(emails))
RECURSIVE BatchTasks(_, _)
BatchTasks(s, ts) ==
    IF ts = <<>> THEN s
    ELSE BatchTasks(SQL_INSERT_TASK(s, Head(ts)), Tail(ts))

(***************************************************************************)
(* seed.py: the seeding routines.  Each gives the set of its possible      *)
(* results on a usable session: [outcome, tx, seq, seen, emails, exc].     *)
(***************************************************************************)
statuses == <<"new", "in progress", "completed">>

Result(o, s, seen, emails, e) ==
    [outcome |-> o, tx |-> s.tx, seq |-> s.seq, seen |-> seen,
     emails |-> emails, exc |-> e]

seed_statuses(view, sq, seen) ==
    LET s == [tx |-> view, seq |-> sq] IN
    IF "status" \notin view.tables
    THEN {Result("raised", s, seen, None, Raise("UndefinedTable", "seed_statuses", None))}
    ELSE {Result("ok", BatchStatuses(s, statuses), seen, None, NoExc)}

\* Variant: fake.email() in place of fake.unique.email().
EmailListsNotUnique(seen, count) == [1..count -> Emails]

\* [(fake.name(), fake.unique.email()) for _ in range(count)]: `count` emails,
\* none of them in the cache, no two alike.
UniqueEmailLists(seen, count) ==
    {l \in [1..count -> Emails \ seen] : \A i, j \in 1..count : l[i] = l[j] => i = j}

seed_users(view, sq, seen, count) ==
    LET s == [tx |-> view, seq |-> sq] IN
    IF Cardinality(Emails \ seen) < count
    THEN \* fake.unique runs out before the list is built; the cache is not cleared
         {Result("raised", s, Emails, None,
                 Raise("UniquenessException", "seed_users", None))}
    ELSE IF count > 0 /\ "users" \notin view.tables
    THEN {Result("raised", s, {}, Some(l),
                 Raise("UndefinedTable", "seed_users", None))
            : l \in UniqueEmailLists(seen, count)}
    ELSE {Result("ok", BatchUsers(s, l), {}, Some(l), NoExc)
            : l \in UniqueEmailLists(seen, count)}

\* Variant: one task too many.
TaskChoicesOneMore(status_ids, user_ids, count) ==
    [1..(count + 1) -> status_ids \X user_ids]

\* random.choice(status_ids), random.choice(user_ids), `count` times.
TaskChoices(status_ids, user_ids, count) == [1..count -> status_ids \X user_ids]

\* Variant: `and` in place of `or`.
NothingToReferenceBoth(user_ids, status_ids) == user_ids = {} /\ status_ids = {}

\* if not user_ids or not status_ids: warn and return
NothingToReference(user_ids, status_ids) == user_ids = {} \/ status_ids = {}

seed_tasks(view, sq, seen, count) ==
    LET s == [tx |-> view, seq |-> sq]
        user_ids == SQL_SELECT_USER_IDS(view)
        status_ids == SQL_SELECT_STATUS_IDS(view)
    IN
    IF "users" \notin view.tables \/ "status" \notin view.tables
    THEN {Result("raised", s, seen, None, Raise("UndefinedTable", "seed_tasks", None))}
    ELSE IF NothingToReference(user_ids, status_ids)
    THEN {Result("skipped", s, seen, None, NoExc)}
    ELSE IF count > 0 /\ (user_ids = {} \/ status_ids = {})
    THEN \* random.choice of an empty list
         {Result("raised", s, seen, None, Raise("IndexError", "seed_tasks", None))}
    ELSE IF count > 0 /\ "tasks" \notin view.tables
    THEN {Result("raised", s, seen, None, Raise("UndefinedTable", "seed_tasks", None))}
    ELSE {IF \A i \in 1..count : TaskRefsOk(view, ts[i])
          THEN Result("ok", BatchTasks(s, ts), seen, None, NoExc)
          ELSE Result("raised", s, seen, None,
                      Raise("ForeignKeyViolation", "seed_tasks", None))
            : ts \in TaskChoices(status_ids, user_ids, count)}

(***************************************************************************)
(* The session (psycopg2 over the server's transactions).                  *)
(***************************************************************************)
Log(name, ok) == opLog' = Append(opLog, <<name, ok>>)

\* A routine `fn` with results R runs on the handle: one of its results on a
\* usable session; InFailedSqlTransaction after an earlier error in the same
\* transaction; OperationalError when the link drops (the server then aborts
\* the transaction); InterfaceError on a session already lost.
RunRoutine(fn, count, R) ==
    /\ pre' = tx
    /\ \/ /\ link /\ txn # "inerror"
          /\ \E r \in R :
                /\ tx' = r.tx /\ seq' = r.seq /\ uniqueSeen' = r.seen
                /\ exc' = r.exc
                /\ txn' = IF r.outcome = "raised"
                          THEN (IF r.exc.type = "UniquenessException" THEN txn
                                ELSE "inerror")
                          ELSE "intrans"
                /\ emailLog' = IF r.emails.some THEN Append(emailLog, r.emails.v)
                               ELSE emailLog
                /\ call' = [fn |-> fn, count |-> count, outcome |-> r.outcome]
                /\ Log(fn, r.outcome # "raised")
          /\ UNCHANGED link
       \/ /\ link /\ txn = "inerror"
          /\ exc' = Raise("InFailedSqlTransaction", fn, None)
          /\ call' = [fn |-> fn, count |-> count, outcome |-> "raised"]
          /\ Log(fn, FALSE)
          /\ UNCHANGED <<tx, seq, uniqueSeen, txn, emailLog, link>>
       \/ /\ link
          /\ link' = FALSE /\ tx' = db /\ txn' = "idle"
          /\ exc' = Raise("OperationalError", fn, None)
          /\ call' = [fn |-> fn, count |-> count, outcome |-> "raised"]
          /\ Log(fn, FALSE)
          /\ UNCHANGED <<seq, uniqueSeen, emailLog>>
       \/ /\ ~link
          /\ exc' = Raise("InterfaceError", fn, None)
          /\ call' = [fn |-> fn, count |-> count, outcome |-> "raised"]
          /\ Log(fn, FALSE)
          /\ UNCHANGED <<tx, seq, uniqueSeen, txn, emailLog, link>>

\* conn.commit(): what becomes the committed store.  A transaction in error
\* is rolled back by COMMIT; with no transaction open nothing is sent (logged
\* as "commit_noop").
Committed(committed, view, status) == IF status = "intrans" THEN view ELSE committed

\* Variant: the handle in autocommit mode, where a rollback undoes nothing.
RolledBackKeeps(committed, view) == view

\* conn.rollback(): what the committed store is afterwards.
RolledBack(committed, view) == committed

Commit ==
    \/ /\ link
       /\ db' = Committed(db, tx, txn) /\ tx' = db' /\ txn' = "idle"
       /\ Log(IF txn = "idle" THEN "commit_noop" ELSE "commit", TRUE)
       /\ UNCHANGED <<link, exc>>
    \/ /\ link /\ txn # "idle"
       /\ link' = FALSE /\ tx' = db /\ txn' = "idle"
       /\ exc' = Raise("OperationalError", "commit", None)
       /\ Log("commit", FALSE)
       /\ UNCHANGED db
    \/ /\ ~link
       /\ exc' = Raise("InterfaceError", "commit", None)
       /\ Log("commit", FALSE)
       /\ UNCHANGED <<db, tx, txn, link>>

Rollback ==
    \/ /\ link
       /\ db' = RolledBack(db, tx) /\ tx' = db' /\ txn' = "idle"
       /\ Log("rollback", TRUE)
       /\ UNCHANGED <<link, exc>>
    \/ /\ ~link
       /\ exc' = Raise("InterfaceError", "rollback", None)
       /\ Log("rollback", FALSE)
       /\ UNCHANGED <<db, tx, txn, link>>

\* conn.close(): the server discards an open transaction.
Close ==
    /\ conn' = "closed" /\ tx' = db /\ txn' = "idle"
    /\ Log("close", TRUE)
    /\ UNCHANGED <<db, link>>

(***************************************************************************)
(* seed.py: get_connection                                                 *)
(***************************************************************************)
DefaultMaxWait == 30
SleepHalfSeconds == 3      \* time.sleep(1.5)

\* cfg = _parse_db_env(); deadline = time.time() + max_wait_seconds
GetConnectionEnter ==
    /\ pc = "get_connection"
    /\ LET r == _parse_db_env(env) IN
       IF r.ok
       THEN /\ cfg' = r.rec
            /\ deadline' = now + 2 * maxWait
            /\ attempt' = 0
            /\ last_err' = None
            /\ pc' = "gc_while"
            /\ UNCHANGED exc
       ELSE /\ exc' = r.exc
            /\ pc' = "gc_raised"
            /\ UNCHANGED <<cfg, deadline, attempt, last_err>>
    /\ UNCHANGED <<env, parts, maxWait, now, conn, autocommit, link, txn, db, tx, seq,
                   uniqueSeen, emailLog, SEED_USERS, SEED_TASKS, before, pre,
                   call, opLog, ddlIndex, ret>>

\* What the ConnectionError after the loop embeds.
EmbeddedError(err) == err

\* while time.time() < deadline: attempt += 1 ... else the ConnectionError
GcWhile ==
    /\ pc = "gc_while"
    /\ IF now < deadline
       THEN /\ attempt' = attempt + 1
            /\ pc' = "gc_connect"
            /\ UNCHANGED exc
       ELSE /\ exc' = Raise("ConnectionError", "get_connection", EmbeddedError(last_err))
            /\ pc' = "gc_raised"
            /\ UNCHANGED attempt
    /\ UNCHANGED <<env, parts, cfg, maxWait, now, deadline, last_err, conn, autocommit,
                   link, txn, db, tx, seq, uniqueSeen, emailLog, SEED_USERS,
                   SEED_TASKS, before, pre, call, opLog, ddlIndex, ret>>

\* The failure of the attempt numbered n.
AttemptError(n) == Some(<<n>>)

\* conn = psycopg2.connect(**cfg); conn.autocommit = False; return conn
\* or: except Exception as exc: last_err = exc
GcConnect ==
    /\ pc = "gc_connect"
    /\ \/ /\ conn' = "open" /\ autocommit' = FALSE /\ link' = TRUE
          /\ txn' = "idle" /\ tx' = db
          /\ pc' = "gc_returned"
          /\ UNCHANGED last_err
       \/ /\ last_err' = AttemptError(attempt)
          /\ pc' = "gc_sleep"
          /\ UNCHANGED <<conn, autocommit, link, txn, tx>>
    /\ UNCHANGED <<env, parts, cfg, exc, maxWait, now, deadline, attempt, db, seq,
                   uniqueSeen, emailLog, SEED_USERS, SEED_TASKS, before, pre,
                   call, opLog, ddlIndex, ret>>

\* time.sleep(1.5)
GcSleep ==
    /\ pc = "gc_sleep"
    /\ now' = now + SleepHalfSeconds
    /\ pc' = "gc_while"
    /\ UNCHANGED <<env, parts, cfg, exc, maxWait, deadline, attempt, last_err, conn,
                   autocommit, link, txn, db, tx, seq, uniqueSeen, emailLog,
                   SEED_USERS, SEED_TASKS, before, pre, call, opLog, ddlIndex, ret>>

get_connection == GetConnectionEnter \/ GcWhile \/ GcConnect \/ GcSleep

(***************************************************************************)
(* seed.py: main                                                           *)
(***************************************************************************)
\* Variables no action of the seeder's main() touches after the connection.
Untouched == <<env, parts, cfg, maxWait, now, deadline, attempt, last_err, autocommit,
               SEED_USERS, SEED_TASKS, before, ddlIndex, ret>>

\* conn = None; conn = get_connection()
MainStart ==
    /\ pc = "main"
    /\ pc' = "get_connection"
    /\ UNCHANGED <<env, parts, cfg, exc, maxWait, now, deadline, attempt, last_err, conn,
                   autocommit, link, txn, db, tx, seq, uniqueSeen, emailLog,
                   SEED_USERS, SEED_TASKS, before, pre, call, opLog, ddlIndex, ret>>

\* get_connection returned: `with conn:` is entered; it raised: the handler
\* runs.  Either way get_connection's frame (cfg, deadline, attempt, last_err
\* and its clock readings) is gone.
MainConnected ==
    /\ pc \in {"gc_returned", "gc_raised"}
    /\ pc' = IF pc = "gc_returned" THEN "seed_statuses" ELSE "except"
    /\ cfg' = None /\ now' = 0 /\ deadline' = 0 /\ attempt' = 0 /\ last_err' = None
    /\ UNCHANGED <<env, parts, exc, maxWait, conn,
                   autocommit, link, txn, db, tx, seq, uniqueSeen, emailLog,
                   SEED_USERS, SEED_TASKS, before, pre, call, opLog, ddlIndex, ret>>

\* Where main() goes after a step of the with block.
AfterStep(next) == IF call'.outcome = "raised" THEN "with_rollback" ELSE next

MainSeedStatuses ==
    /\ pc = "seed_statuses"
    /\ RunRoutine("seed_statuses", 0, seed_statuses(tx, seq, uniqueSeen))
    /\ pc' = AfterStep("seed_users")
    /\ UNCHANGED <<Untouched, conn, db>>

MainSeedUsers ==
    /\ pc = "seed_users"
    /\ RunRoutine("seed_users", SEED_USERS, seed_users(tx, seq, uniqueSeen, SEED_USERS))
    /\ pc' = AfterStep("seed_tasks")
    /\ UNCHANGED <<Untouched, conn, db>>

MainSeedTasks ==
    /\ pc = "seed_tasks"
    /\ RunRoutine("seed_tasks", SEED_TASKS, seed_tasks(tx, seq, uniqueSeen, SEED_TASKS))
    /\ pc' = AfterStep("with_commit")
    /\ UNCHANGED <<Untouched, conn, db>>

\* `with conn:` left without an exception: conn.commit()
MainWithCommit ==
    /\ pc = "with_commit"
    /\ Commit
    /\ pc' = IF opLog'[Len(opLog')][2] THEN "finally" ELSE "except"
    /\ UNCHANGED <<Untouched, conn, seq, uniqueSeen, emailLog, pre, call>>

\* `with conn:` left by an exception: conn.rollback(), and the exception goes on
MainWithRollback ==
    /\ pc = "with_rollback"
    /\ Rollback
    /\ pc' = "except"
    /\ UNCHANGED <<Untouched, conn, seq, uniqueSeen, emailLog, pre, call>>

\* except Exception: logging.exception(...); if conn: conn.rollback()
MainExcept ==
    /\ pc = "except"
    /\ IF conn # "none"
       THEN Rollback
       ELSE UNCHANGED <<db, tx, txn, link, exc, opLog>>
    /\ pc' = "finally"
    /\ UNCHANGED <<Untouched, conn, seq, uniqueSeen, emailLog, pre, call>>

\* Variant: the handle is left open.
FinallyNoClose == UNCHANGED <<conn, db, tx, txn, link, opLog>>

\* What main()'s finally clause does with a handle it holds.
FinallyStep == Close

\* finally: if conn: conn.close()
MainFinally ==
    /\ pc = "finally"
    /\ IF conn # "none"
       THEN FinallyStep
       ELSE UNCHANGED <<conn, db, tx, txn, link, opLog>>
    /\ pc' = "done"
    /\ UNCHANGED <<Untouched, exc, seq, uniqueSeen, emailLog, pre, call>>

main == \/ MainStart \/ MainConnected \/ MainSeedStatuses \/ MainSeedUsers
        \/ MainSeedTasks \/ MainWithCommit \/ MainWithRollback \/ MainExcept
        \/ MainFinally

(***************************************************************************)
(* The inputs drawn: environments, connection strings, stores.             *)
(***************************************************************************)
SeqsUpTo(S, n) == UNION {[1..k -> S] : k \in 0..n}

EnvVars == {"DATABASE_URL", "DB_NAME", "DB_USER", "DB_PASSWORD", "DB_HOST", "DB_PORT"}
TextValues == {None, Some(<<>>), Some(<<"x">>)}
PortChars == {"5", "0", "-", "a"}
PortValues == {None} \cup {Some(t) : t \in SeqsUpTo(PortChars, MaxPortLen)}

MkEnv(url, name, user, password, host, port) ==
    [k \in EnvVars |->
        CASE k = "DATABASE_URL" -> url
          [] k = "DB_NAME" -> name
          [] k = "DB_USER" -> user
          [] k = "DB_PASSWORD" -> password
          [] k = "DB_HOST" -> host
          [] k = "DB_PORT" -> port]

\* No usable DATABASE_URL: every assignment of the discrete variables.
DiscreteEnvs ==
    {MkEnv(url, n, u, pw, h, pt) :
        url \in {None, Some(<<>>)}, n \in TextValues, u \in TextValues,
        pw \in TextValues, h \in TextValues, pt \in PortValues}

SchemeTexts == AcceptedSchemes \cup { <<"m","y","s","q","l">>,
                                      <<"P","o","s","t","g","r","e","s">> }
HostTexts == { <<"l","o","c","a","l","h","o","s","t">>,
               <<"L","o","c","a","l","H","o","s","t">> }
UrlPortTexts == {None, Some(<<"5","5","5","5">>), Some(<<"0">>), Some(<<"5","a">>)}
NoParts == [scheme |-> <<>>, user |-> None, password |-> None, host |-> <<>>,
            port |-> None, dbname |-> <<>>]
UrlParts ==
    {[scheme |-> sc, user |-> u, password |-> pw, host |-> h, port |-> pt,
      dbname |-> <<"t","a","s","k","d","b">>] :
        sc \in SchemeTexts, u \in {None, Some(<<"u">>)}, pw \in {None, Some(<<"p">>)},
        h \in HostTexts, pt \in UrlPortTexts}
WellFormed(q) ==
    /\ q.password.some => q.user.some
    /\ q.port.some => IsDigit(q.port.v)

\* scheme://[user[:password]@]host[:port]/dbname
UrlText(q) ==
    q.scheme \o <<":", "/", "/">>
    \o (IF q.user.some THEN q.user.v ELSE <<>>)
    \o (IF q.password.some THEN <<":">> \o q.password.v ELSE <<>>)
    \o (IF q.user.some \/ q.password.some THEN <<"@">> ELSE <<>>)
    \o q.host
    \o (IF q.port.some THEN <<":">> \o q.port.v ELSE <<>>)
    \o <<"/">> \o q.dbname

\* DATABASE_URL set, the discrete variables all unset or all set.
UrlEnv(q, d) == MkEnv(Some(UrlText(q)), d, d, d, d, d)

GoodEnv == MkEnv(None, Some(<<"x">>), Some(<<"x">>), Some(<<"x">>), Some(<<"x">>),
                 Some(<<"5", "4">>))
BadEnv == [GoodEnv EXCEPT !["DB_HOST"] = None]
ScriptEnvs == {GoodEnv, BadEnv}
BootEnvs ==
    {MkEnv(None, n, u, pw, h, pt) :
        n \in {None, Some(<<"x">>)}, u \in {None, Some(<<"x">>)},
        pw \in {None, Some(<<>>)}, h \in {None, Some(<<"x">>)},
        pt \in {None, Some(<<"5", "4">>)}}

AllTables == {"users", "status", "tasks"}
CanonicalStatus == {[id |-> 1, name |-> "new"], [id |-> 2, name |-> "in progress"],
                    [id |-> 3, name |-> "completed"]}
\* The stores drawn: tasks exists only beside the two tables it references;
\* rows only in existing tables; a task row only beside the rows it references.
StoreSamples ==
    {st \in [tables : SUBSET AllTables,
             status : {{}, CanonicalStatus},
             users  : {{}, {[id |-> 1, email |-> 1]}},
             tasks  : {{}, {[id |-> 1, status_id |-> 1, user_id |-> 1]}}] :
        /\ "tasks" \in st.tables => {"users", "status"} \subseteq st.tables
        /\ st.status # {} => "status" \in st.tables
        /\ st.users # {} => "users" \in st.tables
        /\ st.tasks # {} => "tasks" \in st.tables /\ st.status # {} /\ st.users # {}}
SeqOf(st) == [status |-> NextId(st.status), users |-> NextId(st.users),
              tasks |-> NextId(st.tasks)]
NoCall == [fn |-> "none", count |-> 0, outcome |-> "none"]

\* What every entry point starts from, apart from its own inputs.
InitCommon ==
    /\ cfg = None /\ exc = NoExc
    /\ now = 0 /\ deadline = 0 /\ attempt = 0 /\ last_err = None
    /\ autocommit = FALSE
    /\ emailLog = <<>>
    /\ pre = EmptyStore /\ call = NoCall /\ opLog = <<>>
    /\ ddlIndex = 0 /\ ret = -1

(***************************************************************************)
(* Entry point: python seed.py, that is main() once, on a drawn store,     *)
(* environment and generator cache.                                        *)
(***************************************************************************)
Init ==
    /\ InitCommon
    /\ pc = "main"
    /\ env \in ScriptEnvs /\ parts = NoParts
    /\ maxWait = DefaultMaxWait
    /\ conn = "none" /\ link = FALSE /\ txn = "idle"
    /\ db \in StoreSamples /\ tx = db /\ seq = SeqOf(db) /\ before = db
    /\ uniqueSeen \in {{}, Emails}
    /\ SEED_USERS \in 0..(NumEmails + 1)
    /\ SEED_TASKS \in 0..MaxSeedTasks

Next == get_connection \/ main

Spec == Init /\ [][Next]_vars

\* main() is one sequential run: it always takes its next step.
FairSpec == Spec /\ WF_vars(Next)

(***************************************************************************)
(* Entry point: get_connection(max_wait_seconds) called directly.          *)
(***************************************************************************)
InitConnect ==
    /\ InitCommon
    /\ pc = "get_connection"
    /\ env \in ScriptEnvs /\ parts = NoParts
    /\ maxWait \in 0..MaxWaitSeconds
    /\ conn = "none" /\ link = FALSE /\ txn = "idle"
    /\ db \in StoreSamples /\ tx = db /\ seq = SeqOf(db) /\ before = db
    /\ uniqueSeen = {}
    /\ SEED_USERS = 0 /\ SEED_TASKS = 0

SpecConnect == InitConnect /\ [][get_connection]_vars

(***************************************************************************)
(* Entry point: _parse_db_env() called directly.                           *)
(***************************************************************************)
InitEnv ==
    /\ InitCommon
    /\ pc = "_parse_db_env"
    /\ \/ env \in DiscreteEnvs /\ parts = NoParts
       \/ \E q \in UrlParts, d \in {None, Some(<<"x">>)} :
             env = UrlEnv(q, d) /\ parts = q
    /\ maxWait = DefaultMaxWait
    /\ conn = "none" /\ link = FALSE /\ txn = "idle"
    /\ db = EmptyStore /\ tx = db /\ seq = SeqOf(db) /\ before = db
    /\ uniqueSeen = {}
    /\ SEED_USERS = 0 /\ SEED_TASKS = 0

ParseDbEnv ==
    /\ pc = "_parse_db_env"
    /\ LET r == _parse_db_env(env) IN cfg' = r.rec /\ exc' = r.exc
    /\ pc' = "parsed"
    /\ UNCHANGED <<env, parts, maxWait, now, deadline, attempt, last_err, conn,
                   autocommit, link, txn, db, tx, seq, uniqueSeen, emailLog,
                   SEED_USERS, SEED_TASKS, before, pre, call, opLog, ddlIndex, ret>>

SpecEnv == InitEnv /\ [][ParseDbEnv]_vars

(***************************************************************************)
(* Entry point: the seeding routines called one after another on an open   *)
(* handle, with commits and rollbacks in between.                          *)
(***************************************************************************)
InitRoutines ==
    /\ InitCommon
    /\ pc = "routines"
    /\ env = GoodEnv /\ parts = NoParts
    /\ maxWait = DefaultMaxWait
    /\ conn = "open" /\ link = TRUE /\ txn = "idle"
    /\ db \in StoreSamples /\ tx = db /\ seq = SeqOf(db) /\ before = db
    /\ uniqueSeen = {}
    /\ SEED_USERS = 0 /\ SEED_TASKS = 0

CanCall == pc = "routines" /\ Len(opLog) < MaxCalls

CallSeedStatuses ==
    /\ CanCall
    /\ RunRoutine("seed_statuses", 0, seed_statuses(tx, seq, uniqueSeen))
    /\ UNCHANGED <<Untouched, pc, conn, db>>

CallSeedUsers ==
    /\ CanCall
    /\ \E count \in 0..(NumEmails + 1) :
          RunRoutine("seed_users", count, seed_users(tx, seq, uniqueSeen, count))
    /\ UNCHANGED <<Untouched, pc, conn, db>>

CallSeedTasks ==
    /\ CanCall
    /\ \E count \in 0..MaxTasks :
          /\ Cardinality(tx.tasks) + count <= MaxTasks + 1
          /\ RunRoutine("seed_tasks", count, seed_tasks(tx, seq, uniqueSeen, count))
    /\ UNCHANGED <<Untouched, pc, conn, db>>

CallCommit ==
    /\ CanCall
    /\ Commit
    /\ UNCHANGED <<Untouched, pc, conn, seq, uniqueSeen, emailLog, pre, call>>

CallRollback ==
    /\ CanCall
    /\ Rollback
    /\ UNCHANGED <<Untouched, pc, conn, seq, uniqueSeen, emailLog, pre, call>>

SpecRoutines ==
    InitRoutines /\ [][CallSeedStatuses \/ CallSeedUsers \/ CallSeedTasks
                       \/ CallCommit \/ CallRollback]_vars

(***************************************************************************)
(* db_create_tables.py                                                     *)
(***************************************************************************)
\* Variant: the referencing table first.
DDL_STATEMENTS_TasksFirst == <<"tasks", "users", "status">>
DDL_STATEMENTS == <<"users", "status", "tasks">>

\* The tables a CREATE TABLE statement's foreign keys reference.
References(t) == IF t = "tasks" THEN {"status", "users"} ELSE {}

\* CREATE TABLE IF NOT EXISTS t: skipped when t exists; otherwise the tables
\* it references must exist.
DdlOk(view, t) == t \in view.tables \/ References(t) \subseteq view.tables
CreateTable(view, t) == [view EXCEPT !.tables = @ \cup {t}]

\* os.environ[k] for the five variables: KeyError when one is unset.
BootEnvOk(e) ==
    \A k \in {"DB_NAME", "DB_USER", "DB_PASSWORD", "DB_HOST", "DB_PORT"} : e[k].some

\* Variables the bootstrap never touches.
BootUntouched == <<env, parts, cfg, maxWait, now, deadline, attempt, last_err,
                   seq, uniqueSeen, emailLog, SEED_USERS, SEED_TASKS, before,
                   pre, call>>

\* with get_db_connection() as conn:
BootConnect ==
    /\ pc = "boot_main"
    /\ \/ /\ ~BootEnvOk(env)
          /\ exc' = Raise("KeyError", "get_db_connection", None)
          /\ pc' = "boot_except"
          /\ UNCHANGED <<conn, link, txn, tx, ddlIndex>>
       \/ /\ BootEnvOk(env)
          /\ exc' = Raise("OperationalError", "get_db_connection", None)
          /\ pc' = "boot_except"
          /\ UNCHANGED <<conn, link, txn, tx, ddlIndex>>
       \/ /\ BootEnvOk(env)
          /\ conn' = "open" /\ link' = TRUE /\ txn' = "idle" /\ tx' = db
          /\ ddlIndex' = 1
          /\ pc' = "create_tables"
          /\ UNCHANGED exc
    /\ UNCHANGED <<BootUntouched, autocommit, db, opLog, ret>>

\* Where create_tables goes after the statement numbered i.
AfterStatement(i) == IF i = Len(DDL_STATEMENTS) THEN "ct_commit" ELSE "create_tables"

\* for ddl in statements: cur.execute(ddl)
BootExecute ==
    /\ pc = "create_tables"
    /\ LET t == DDL_STATEMENTS[ddlIndex] IN
       \/ /\ DdlOk(tx, t)
          /\ tx' = CreateTable(tx, t) /\ txn' = "intrans"
          /\ Log(t, TRUE)
          /\ ddlIndex' = ddlIndex + 1
          /\ pc' = AfterStatement(ddlIndex)
          /\ UNCHANGED <<link, exc>>
       \/ /\ ~DdlOk(tx, t)
          /\ txn' = "inerror"
          /\ exc' = Raise("UndefinedTable", t, None)
          /\ Log(t, FALSE)
          /\ pc' = "boot_with_rollback"
          /\ UNCHANGED <<tx, link, ddlIndex>>
       \/ /\ link' = FALSE /\ tx' = db /\ txn' = "idle"
          /\ exc' = Raise("OperationalError", t, None)
          /\ Log(t, FALSE)
          /\ pc' = "boot_with_rollback"
          /\ UNCHANGED ddlIndex
    /\ UNCHANGED <<BootUntouched, conn, autocommit, db, ret>>

\* conn.commit() at the end of create_tables
BootCommit ==
    /\ pc = "ct_commit"
    /\ Commit
    /\ pc' = IF opLog'[Len(opLog')][2] THEN "boot_with_commit" ELSE "boot_with_rollback"
    /\ UNCHANGED <<BootUntouched, conn, autocommit, ddlIndex, ret>>

\* the with block is left without an exception: conn.commit(); return 0
BootWithCommit ==
    /\ pc = "boot_with_commit"
    /\ Commit
    /\ IF opLog'[Len(opLog')][2]
       THEN ret' = 0 /\ pc' = "boot_done"
       ELSE ret' = ret /\ pc' = "boot_except"
    /\ UNCHANGED <<BootUntouched, conn, autocommit, ddlIndex>>

\* the with block is left by an exception: conn.rollback()
BootWithRollback ==
    /\ pc = "boot_with_rollback"
    /\ Rollback
    /\ pc' = "boot_except"
    /\ UNCHANGED <<BootUntouched, conn, autocommit, ddlIndex, ret>>

\* except (Exception, psycopg2.DatabaseError): logging.error(...); return 1
BootExcept ==
    /\ pc = "boot_except"
    /\ ret' = 1
    /\ pc' = "boot_done"
    /\ UNCHANGED <<BootUntouched, exc, conn, autocommit, link, txn, db, tx, opLog,
                   ddlIndex>>

InitBoot ==
    /\ InitCommon
    /\ pc = "boot_main"
    /\ env \in BootEnvs /\ parts = NoParts
    /\ maxWait = DefaultMaxWait
    /\ conn = "none" /\ link = FALSE /\ txn = "idle"
    /\ db \in StoreSamples /\ tx = db /\ seq = SeqOf(db) /\ before = db
    /\ uniqueSeen = {}
    /\ SEED_USERS = 0 /\ SEED_TASKS = 0

SpecBoot ==
    InitBoot /\ [][BootConnect \/ BootExecute \/ BootCommit \/ BootWithCommit
                   \/ BootWithRollback \/ BootExcept]_vars

(***************************************************************************)
(* Properties.                                                             *)
(***************************************************************************)
LastOp == IF opLog = <<>> THEN <<"none", TRUE>> ELSE opLog[Len(opLog)]
Range(f) == {f[i] : i \in DOMAIN f}
EmailsOf(rows) == {r.email : r \in rows}
NamesOf(rows) == {r.name : r \in rows}
\* Failures of the session rather than of the routine run on it.
SessionErrors == {"OperationalError", "InterfaceError", "InFailedSqlTransaction"}
SeedRun == << <<"seed_statuses", TRUE>>, <<"seed_users", TRUE>>,
              <<"seed_tasks", TRUE>>, <<"commit", TRUE>> >>

\* C1: the three seeding steps of main() share one transaction: when a step
\* raised, the committed store is what it was before the run, and the
\* committed store differs from that only after all three steps completed
\* and the transaction was committed.
C1_OneTransaction ==
    /\ call.outcome = "raised" => db = before
    /\ db # before => Len(opLog) >= 4 /\ SubSeq(opLog, 1, 4) = SeedRun
C1_Witness ==
    /\ pc = "done" /\ db = before
    /\ call.fn = "seed_tasks" /\ call.outcome = "raised"
    /\ exc.type = "UndefinedTable"
    /\ pre.status # before.status /\ pre.users # before.users

\* C2: once get_connection has returned a handle, main() eventually closes
\* it, whatever the steps, the commit and the rollbacks did, and a closed
\* handle has the close as the last thing done on it.
C2_AlwaysClosed ==
    /\ (conn = "open") ~> (conn = "closed")
    /\ [](conn = "closed" => LastOp = <<"close", TRUE>>)
C2_Witness ==
    /\ pc = "done" /\ conn = "closed"
    /\ \E i, j \in 1..Len(opLog) :
          i < j /\ opLog[i] = <<"rollback", FALSE>> /\ opLog[j] = <<"rollback", FALSE>>

\* C3: seed_tasks(conn, M), returning from a view with users and statuses,
\* has added exactly M task rows, each referencing a status id and a user id
\* it read back; and every task row, in the session's view and in the
\* committed store, references an existing status row and user row.
C3_TasksReferenceExisting ==
    /\ (LastOp = <<"seed_tasks", TRUE>> /\ pre.users # {} /\ pre.status # {})
          => /\ call.outcome = "ok"
             /\ pre.tasks \subseteq tx.tasks
             /\ Cardinality(tx.tasks \ pre.tasks) = call.count
             /\ \A r \in tx.tasks \ pre.tasks :
                   r.status_id \in Ids(pre.status) /\ r.user_id \in Ids(pre.users)
    /\ \A st \in {tx, db} : \A r \in st.tasks :
          r.status_id \in Ids(st.status) /\ r.user_id \in Ids(st.users)
C3_Witness ==
    /\ LastOp = <<"seed_tasks", TRUE>>
    /\ call.count = 2 /\ Cardinality(pre.tasks) = 1 /\ Cardinality(tx.tasks) = 3
    /\ Cardinality({r.user_id : r \in tx.tasks}) = 2

\* C4: seed_tasks on a usable session whose users table or status table
\* exists but is empty returns normally, whatever count it was given: it
\* skips, and the view is what it was.
C4_EmptyPrerequisiteSkips ==
    (/\ LastOp[1] = "seed_tasks"
     /\ {"users", "status"} \subseteq pre.tables
     /\ pre.users = {} \/ pre.status = {}
     /\ exc.type \notin SessionErrors)
        => LastOp[2] /\ call.outcome = "skipped" /\ exc = NoExc /\ tx = pre
C4_Witness ==
    /\ LastOp = <<"seed_tasks", TRUE>>
    /\ call.count = 2 /\ call.outcome = "skipped"
    /\ pre.status = {} /\ pre.users # {} /\ tx.tasks = {}

\* C5: after seed_statuses has run on a usable session with a status table,
\* however often, the table holds exactly three rows, named "new",
\* "in progress" and "completed"; a run on a table that already holds them
\* inserts nothing; and no run raises.
C5_StatusesIdempotent ==
    /\ LastOp = <<"seed_statuses", TRUE>>
          => /\ Cardinality(tx.status) = 3
             /\ NamesOf(tx.status) = {"new", "in progress", "completed"}
             /\ Cardinality(pre.status) = 3 => tx.status = pre.status
    /\ (LastOp[1] = "seed_statuses" /\ "status" \in pre.tables
        /\ exc.type \notin SessionErrors) => LastOp[2]
C5_Witness ==
    /\ before.status = {}
    /\ opLog = << <<"seed_statuses", TRUE>>, <<"seed_statuses", TRUE>> >>
    /\ Cardinality(tx.status) = 3 /\ tx.status = pre.status

\* Two seed_users calls in a row, both returning, with the same count.
TwoSeedUsersRuns ==
    /\ Len(opLog) >= 2 /\ Len(emailLog) >= 2
    /\ opLog[Len(opLog)] = <<"seed_users", TRUE>>
    /\ opLog[Len(opLog) - 1] = <<"seed_users", TRUE>>
    /\ Len(emailLog[Len(emailLog)]) = Len(emailLog[Len(emailLog) - 1])

\* C6 as stated: on the second of two seed_users runs with the same count,
\* every email generated differs from every email of the first run, and the
\* run adds exactly `count` user rows.
C6_SecondRunDistinct ==
    TwoSeedUsersRuns =>
        /\ Range(emailLog[Len(emailLog)]) \cap Range(emailLog[Len(emailLog) - 1]) = {}
        /\ Cardinality(tx.users) = Cardinality(pre.users) + call.count

\* C6 as amended: the emails of one seed_users run are `count` emails, no two
\* alike; the run adds one row for each of them that the users table did not
\* hold, at most `count` rows, and no two user rows share an email.
C6_RunAddsNewEmailsOnly ==
    LastOp = <<"seed_users", TRUE>> =>
        LET l == emailLog[Len(emailLog)] IN
        /\ Len(l) = call.count
        /\ Cardinality(Range(l)) = call.count
        /\ EmailsOf(tx.users) = EmailsOf(pre.users) \cup Range(l)
        /\ Cardinality(tx.users) = Cardinality(EmailsOf(tx.users))
        /\ Cardinality(tx.users) - Cardinality(pre.users)
              = Cardinality(Range(l) \ EmailsOf(pre.users))
        /\ Cardinality(tx.users) - Cardinality(pre.users) <= call.count
C6_Witness ==
    /\ TwoSeedUsersRuns
    /\ before.users = {}
    /\ call.count = 2
    /\ Range(emailLog[1]) = Range(emailLog[2])
    /\ tx.users = pre.users /\ Cardinality(tx.users) = 2

\* C7 as stated: the ConnectionError of get_connection embeds the failure of
\* the latest attempt, of which there was at least one; a handle is returned
\* open, with autocommit off, by the attempt that was the last one made.
C7_ErrorEmbedsLastFailure ==
    /\ (pc = "gc_raised" /\ exc.type = "ConnectionError")
          => attempt >= 1 /\ exc.info = Some(<<attempt>>)
    /\ pc = "gc_returned" => conn = "open" /\ ~autocommit /\ attempt >= 1

\* The required discrete variables that are set, and those set to a
\* non-empty text.
RequiredVars == {"DB_NAME", "DB_USER", "DB_PASSWORD", "DB_HOST"}
Absent == {k \in RequiredVars : ~env[k].some}
AbsentOrEmpty == {k \in RequiredVars : ~env[k].some \/ env[k].v = <<>>}
DiscreteRecord(port) ==
    Some([dbname |-> env["DB_NAME"], user |-> env["DB_USER"],
          password |-> env["DB_PASSWORD"], host |-> env["DB_HOST"], port |-> port])

\* C8 as stated: with DATABASE_URL unset, _parse_db_env returns the record of
\* the four required variables when all are present, with the port variable's
\* value or 5432 when it is unset, and otherwise fails with a configuration
\* error listing exactly the absent ones.
C8_DiscretePresentOrListed ==
    (pc = "parsed" /\ ~env["DATABASE_URL"].some) =>
        /\ Absent = {} =>
              /\ cfg.some /\ exc = NoExc
              /\ ~env["DB_PORT"].some => cfg = DiscreteRecord(5432)
        /\ Absent # {} =>
              /\ ~cfg.some /\ exc.type = "EnvironmentError"
              /\ Range(exc.info.v) = Absent

\* C8 as amended: with DATABASE_URL unset or empty, _parse_db_env returns the
\* record of the four required variables when all are set and non-empty, with
\* port 5432 when the port variable is unset and its integer value when it is
\* an integer literal, and fails with a ValueError when it is set to anything
\* else; when a required variable is unset or empty it fails with a
\* configuration error listing exactly the unset or empty ones.
C8_DiscreteNonEmptyOrListed ==
    (pc = "parsed" /\ ~Truthy(env["DATABASE_URL"])) =>
        /\ (AbsentOrEmpty = {} /\ ~env["DB_PORT"].some)
              => cfg = DiscreteRecord(5432) /\ exc = NoExc
        /\ (AbsentOrEmpty = {} /\ env["DB_PORT"].some /\ PyIntOk(env["DB_PORT"].v))
              => cfg = DiscreteRecord(PyInt(env["DB_PORT"].v)) /\ exc = NoExc
        /\ (AbsentOrEmpty = {} /\ env["DB_PORT"].some /\ ~PyIntOk(env["DB_PORT"].v))
              => ~cfg.some /\ exc.type = "ValueError"
        /\ AbsentOrEmpty # {} =>
              /\ ~cfg.some /\ exc.type = "EnvironmentError"
              /\ Range(exc.info.v) = AbsentOrEmpty
              /\ Len(exc.info.v) = Cardinality(AbsentOrEmpty)
C8_Witness ==
    /\ pc = "parsed"
    /\ env["DATABASE_URL"] = None
    /\ env["DB_NAME"] = Some(<<>>) /\ env["DB_HOST"] = None
    /\ env["DB_USER"] = Some(<<"x">>) /\ env["DB_PASSWORD"] = Some(<<"x">>)
    /\ exc.info = Some(<<"DB_NAME", "DB_HOST">>)

\* C9 as stated: with DATABASE_URL set to a string, a well-formed string of an
\* accepted scheme gives the record of the string's components (the host
\* compared without regard to case, the scheme likewise), with port 5432 when
\* the string has none; any other scheme fails and gives no record.
C9_UrlRecordMatchesComponents ==
    (pc = "parsed" /\ Truthy(env["DATABASE_URL"]) /\ WellFormed(parts)) =>
        IF Lower(parts.scheme) \in AcceptedSchemes
        THEN /\ cfg.some /\ exc = NoExc
             /\ cfg.v.dbname = Some(parts.dbname)
             /\ cfg.v.user = parts.user
             /\ cfg.v.password = parts.password
             /\ cfg.v.host = Some(Lower(parts.host))
             /\ cfg.v.port = IF parts.port.some THEN DecVal(parts.port.v) ELSE 5432
        ELSE ~cfg.some /\ exc.type = "ValueError"

Failed(log) == \E i \in 1..Len(log) : ~log[i][2]
BootRun == << <<"users", TRUE>>, <<"status", TRUE>>, <<"tasks", TRUE>>,
              <<"commit", TRUE>> >>

\* C10: the bootstrap executes the statements for users, status and tasks in
\* that order and commits once, after the third; when a statement, the
\* commit or the connection fails, the committed tables are those from
\* before the run and main() returns 1; main() returns 0 only after all
\* three statements and the commit succeeded.
C10_BootstrapAllOrNothing ==
    /\ \A i \in 1..Len(opLog) :
          /\ opLog[i][1] \in AllTables
                => i <= 3 /\ opLog[i][1] = <<"users", "status", "tasks">>[i]
          /\ opLog[i] = <<"commit", TRUE>> => i = 4 /\ SubSeq(opLog, 1, 3) = SubSeq(BootRun, 1, 3)
    /\ db # before => Len(opLog) >= 4 /\ SubSeq(opLog, 1, 4) = BootRun
    /\ (pc = "boot_done" /\ (Failed(opLog) \/ conn = "none"))
          => ret = 1 /\ db = before
    /\ ret = 0 => /\ pc = "boot_done"
                  /\ Len(opLog) >= 4 /\ SubSeq(opLog, 1, 4) = BootRun
                  /\ AllTables \subseteq db.tables
    /\ pc = "boot_done" => ret \in {0, 1}
C10_Witness ==
    /\ pc = "boot_done" /\ ret = 1
    /\ before.tables = {} /\ db = before
    /\ Len(opLog) >= 3
    /\ opLog[1] = <<"users", TRUE>> /\ opLog[2] = <<"status", TRUE>>
    /\ opLog[3] = <<"tasks", FALSE>>

====
